---- MODULE Spec2Model ----
(***************************************************************************)
(* A model of calendar-mcp: the JSON-RPC dispatcher (Server, main.go) that *)
(* reads one request per line and answers on standard output, and the      *)
(* calendar adapter (CalendarClient, calendar.go) it calls.                *)
(*                                                                         *)
(* Spec     the dispatcher's run loop over a stand-in adapter that records *)
(*          its calls and returns canned results (CalendarService).        *)
(* SpecCal  the adapter's operations over the provider's stored events.    *)
(***************************************************************************)
EXTENDS Integers, Sequences, FiniteSets, TLC

VARIABLES
    pc,         \* run: "scan" (at scanner.Scan), "handle" (a line is read), "done" (end of
                \* input), "toolong" (the scanner gave up on a line)
    nread,      \* number of lines scanner.Scan has returned
    nhandled,   \* number of lines whose loop body has completed
    line,       \* the line read last (scanner.Bytes)
    response,   \* what handling that line returned or sent; NoValue when nothing
    calls,      \* the adapter calls made while handling that line
    stdout,     \* the lines written, each by its id member and the line being handled
    timezone,   \* CalendarClient.timezone
    store,      \* the provider's event, by id
    op          \* the adapter operation performed last, with what it fetched and wrote

vars == <<pc, nread, nhandled, line, response, calls, stdout, timezone, store, op>>
srvVars == <<pc, nread, nhandled, line, response, calls, stdout>>
calVars == <<timezone, store, op>>

----------------------------------------------------------------------------
(* Values.  A slot that holds a string uses the strings below for what is  *)
(* not a string; a slot that holds a record uses NoValue.                  *)

Nil == "<nil>"             \* Go: nil interface, nil pointer, nil error
Absent == "<absent>"       \* JSON: the member is not there
Null == "null"             \* JSON: the literal null
NotString == "<number>"    \* JSON: a value a Go string cannot take
NoValue == [nil |-> TRUE]  \* Go: nil, where a struct or map is expected

\* bounds of the model
MaxLines == 3

----------------------------------------------------------------------------
(* encoding/json, as far as the envelopes use it *)

\* ID interface{}: a number is decoded into a float64, an absent member leaves nil
BigID == "9007199254740993"
BigIDAsFloat64 == "9007199254740992"
WireIDs == {Absent, "1", BigID}

unmarshalID(w) ==
    IF w = Absent THEN Nil
    ELSE IF w = BigID THEN BigIDAsFloat64
    ELSE w

\* `json:"id,omitempty"`: a nil interface is left out
marshalID(id) == IF id = Nil THEN Absent ELSE id

\* a string field after Unmarshal: absent and null leave the zero value
unmarshalString(v) == IF v \in {Absent, Null, NotString} THEN "" ELSE v

\* a *string field after Unmarshal: absent and null leave nil
unmarshalStringPtrAsValue(v) == IF v \in {Absent, Null, NotString} THEN "" ELSE v
unmarshalStringPtr(v) == IF v \in {Absent, Null, NotString} THEN Nil ELSE v

\* `days` literals: lit says how the member is written, n its value when it has a
\* small integer value.  "bigint" is an integer literal above the range of int and
\* "intfrac" an integer written with a fraction or exponent (14.0).
DaysLits ==
    {[lit |-> "absent", n |-> 0], [lit |-> "null", n |-> 0],
     [lit |-> "string", n |-> 0], [lit |-> "fraction", n |-> 0],
     [lit |-> "bigint", n |-> 0], [lit |-> "intfrac", n |-> 14]}
    \cup {[lit |-> "int", n |-> k] : k \in {-1, 0, 1, 14}}

\* an int field after Unmarshal: strconv.ParseInt must accept the literal
unmarshalInt(d, old) == IF d.lit = "int" THEN d.n ELSE old

----------------------------------------------------------------------------
(* Request lines *)

\* the members a tool's input struct names; a member no tool names is ignored
NoArgs ==
    [days |-> [lit |-> "absent", n |-> 0],
     start_date |-> Absent, end_date |-> Absent,
     summary |-> Absent, description |-> Absent, date |-> Absent,
     start_time |-> Absent, end_time |-> Absent, event_id |-> Absent]

\* `arguments` as written: not there, null, a JSON value that is no object, or an object
Object(o) == [shape |-> "object", obj |-> o]
NonObjects == {[shape |-> s, obj |-> NoArgs] : s \in {"absent", "null", "nonobject"}}

ListEventsArgs == {Object([NoArgs EXCEPT !.days = d]) : d \in DaysLits}

ListEventsRangeArgs ==
    {Object([NoArgs EXCEPT !.start_date = a, !.end_date = b]) :
        a \in {Absent, "", "2026-03-01", NotString},
        b \in {Absent, "", "2026-03-31", NotString}}

\* every combination of the members being there, and a member that is there but
\* empty or of another type
CreateEventArgs ==
    {Object([NoArgs EXCEPT !.summary = s, !.date = d, !.start_time = a,
                           !.end_time = b, !.description = t]) :
        s \in {Absent, "New Event"}, d \in {Absent, "2026-03-15"},
        a \in {Absent, "10:00"}, b \in {Absent, "11:00"},
        t \in {Absent, "notes"}}
    \cup {Object([NoArgs EXCEPT !.summary = s, !.date = "2026-03-15", !.start_time = "10:00",
                               !.end_time = b]) :
            s \in {"", "New Event"}, b \in {"11:00", NotString}}

\* the last one has a member the input struct does not name
DeleteEventArgs ==
    {Object([NoArgs EXCEPT !.event_id = e]) : e \in {Absent, "", "evt-del", NotString}}
    \cup {Object([NoArgs EXCEPT !.event_id = "evt-del", !.summary = NotString])}

EditEventArgs ==
    {Object([NoArgs EXCEPT !.event_id = "evt-1", !.summary = s, !.description = t,
                           !.date = d, !.start_time = a, !.end_time = b]) :
        s \in {Absent, "Updated"}, t \in {Null, "notes"}, d \in {Absent, "2026-03-16"},
        a \in {Absent, "12:00"}, b \in {Absent, "13:00"}}
    \cup {Object([NoArgs EXCEPT !.event_id = e, !.summary = s]) :
            e \in {Absent, "", NotString}, s \in {Absent, "Updated", NotString}}
    \cup {Object([NoArgs EXCEPT !.event_id = "evt-1", !.description = ""])}

ToolNames == <<"list_events", "list_events_range", "create_event", "delete_event", "edit_event">>

ToolArgs(name) ==
    NonObjects \cup
    CASE name = "list_events" -> ListEventsArgs
      [] name = "list_events_range" -> ListEventsRangeArgs
      [] name = "create_event" -> CreateEventArgs
      [] name = "delete_event" -> DeleteEventArgs
      [] name = "edit_event" -> EditEventArgs
      [] OTHER -> {}

\* `params` as written: not there, null, no object, or an object with name and arguments
NoParams == [shape |-> "absent", name |-> Absent, arguments |-> [shape |-> "absent", obj |-> NoArgs]]
Params ==
    {[NoParams EXCEPT !.shape = s] : s \in {"absent", "null", "nonobject"}}
    \cup {[shape |-> "object", name |-> n, arguments |-> a] :
            n \in {Absent, NotString, "nonexistent", "List_Events"}, a \in {[shape |-> "absent", obj |-> NoArgs]}}
    \cup UNION {{[shape |-> "object", name |-> ToolNames[i], arguments |-> a] :
                    a \in ToolArgs(ToolNames[i])} : i \in 1..Len(ToolNames)}

Methods == {"initialize", "initialized", "tools/list", "tools/call", "unknown/method", "Tools/List"}

\* JSONRPCRequest as written on a line
Requests ==
    {[kind |-> "request", id |-> i, method |-> m, params |-> p] :
        i \in WireIDs, m \in Methods \ {"tools/call"}, p \in {NoParams}}
    \cup {[kind |-> "request", id |-> i, method |-> "tools/call", params |-> p] :
            i \in WireIDs, p \in Params}

EmptyLine == [kind |-> "empty", id |-> Absent, method |-> "", params |-> NoParams]
MalformedLine == [kind |-> "malformed", id |-> Absent, method |-> "", params |-> NoParams]
Lines == Requests \cup {EmptyLine, MalformedLine}

\* json.Unmarshal(line, &req)
unmarshalRequest(l) == [ID |-> unmarshalID(l.id), Method |-> l.method, Params |-> l.params]

----------------------------------------------------------------------------
(* The stand-in adapter: what the next call will return *)

CannedEvent == [ID |-> "1", Summary |-> "Test Event",
                Start |-> "2026-02-20T10:00:00+04:00", End |-> "2026-02-20T11:00:00+04:00"]
CannedResult == [Id |-> "evt-1", Summary |-> "Updated", HtmlLink |-> "https://calendar.google.com/event/evt-1"]
AdapterErrors == {"context deadline exceeded", "googleapi: Error 404: Not Found"}
\* an error comes without events
Fakes == {[err |-> Nil, events |-> ev] : ev \in {<<>>, <<CannedEvent>>}}
         \cup {[err |-> e, events |-> <<>>] : e \in AdapterErrors}

----------------------------------------------------------------------------
(* Responses *)

\* &JSONRPCResponse{JSONRPC: "2.0", ID: id, Error: &RPCError{Code: code, Message: message}}
RPCError(id, code, message) ==
    [jsonrpc |-> "2.0", id |-> id, result |-> NoValue,
     error |-> [code |-> code, message |-> message]]

Result(id, result) == [jsonrpc |-> "2.0", id |-> id, result |-> result, error |-> NoValue]

successResponse(id, text) ==
    Result(id, [content |-> <<[type |-> "text", text |-> text]>>])

errorResponseWithErrorObject(id, err) ==
    [jsonrpc |-> "2.0", id |-> id,
     result |-> [content |-> <<[type |-> "text", text |-> <<"Error: ", err>>]>>, isError |-> TRUE],
     error |-> [code |-> -32603, message |-> err]]
errorResponseAsRPCError(id, err) == RPCError(id, -32603, err)
errorResponse(id, err) ==
    Result(id, [content |-> <<[type |-> "text", text |-> <<"Error: ", err>>]>>,
                isError |-> TRUE])

\* a text is the sequence of the pieces fmt.Sprintf puts together
RECURSIVE eventLines(_)
eventLines(events) ==
    IF events = <<>> THEN <<>>
    ELSE <<"- ", Head(events).Summary, "\n  Start: ", Head(events).Start,
           "\n  End: ", Head(events).End, "\n  ID: ", Head(events).ID, "\n\n">>
         \o eventLines(Tail(events))

formatEvents(events) ==
    IF Len(events) = 0 THEN <<"No events found.">>
    ELSE <<"Found ", ToString(Len(events)), " event(s):\n\n">> \o eventLines(events)

\* what a handler did: the response it returns and the adapter calls it made
Returned(resp) == [resp |-> resp, calls |-> <<>>]
CalledAgainOnError(call, resp) ==
    [resp |-> resp, calls |-> IF call.err # Nil THEN <<call, call>> ELSE <<call>>]
Called(call, resp) == [resp |-> resp, calls |-> <<call>>]

\* one call of the CalendarService interface: its operation and arguments, and the
\* error it returned
Call(name, arguments, fake) == [op |-> name, args |-> arguments, err |-> fake.err]

----------------------------------------------------------------------------
(* Tool handlers.  args is the raw `arguments`, fake the adapter's answer.  *)

\* json.Unmarshal(args, &input) returns an error
unmarshalFails(args, fields) ==
    \/ args.shape \in {"absent", "nonobject"}
    \/ args.shape = "object" /\ \E f \in fields : args.obj[f] = NotString

\* input.<field> after json.Unmarshal(args, &input)
stringField(args, f) == IF args.shape = "object" THEN unmarshalString(args.obj[f]) ELSE ""
stringPtrField(args, f) == IF args.shape = "object" THEN unmarshalStringPtr(args.obj[f]) ELSE Nil

DefaultDays == 7

defaultDaysWhenNegative(days) == IF days < 0 THEN DefaultDays ELSE days
defaultDays(days) == IF days <= 0 THEN DefaultDays ELSE days

callListEvents(id, args, fake) ==
    LET decoded == IF args.shape = "absent" THEN DefaultDays      \* len(args) == 0
                   ELSE IF args.shape = "object" THEN unmarshalInt(args.obj.days, DefaultDays)
                   ELSE DefaultDays                               \* the error is dropped
        days == defaultDays(decoded)
    IN  Called(Call("ListEventsForDays", [days |-> days], fake),
               IF fake.err # Nil THEN errorResponse(id, fake.err)
               ELSE successResponse(id, formatEvents(fake.events)))

rangeMissingBoth(startDate, endDate) == startDate = "" /\ endDate = ""
rangeMissing(startDate, endDate) == startDate = "" \/ endDate = ""

callListEventsRange(id, args, fake) ==
    LET StartDate == stringField(args, "start_date")
        EndDate == stringField(args, "end_date")
    IN  IF unmarshalFails(args, {"start_date", "end_date"})
        THEN Returned(RPCError(id, -32602, "Invalid arguments"))
        ELSE IF rangeMissing(StartDate, EndDate)
        THEN Returned(RPCError(id, -32602, "start_date and end_date are required"))
        ELSE Called(Call("ListEventsRange", [startDate |-> StartDate, endDate |-> EndDate], fake),
                    IF fake.err # Nil THEN errorResponse(id, fake.err)
                    ELSE successResponse(id, formatEvents(fake.events)))

createMissing(summary, date, startTime, endTime) ==
    summary = "" \/ date = "" \/ startTime = "" \/ endTime = ""

callCreateEvent(id, args, fake) ==
    LET Summary == stringField(args, "summary")
        Date == stringField(args, "date")
        StartTime == stringField(args, "start_time")
        EndTime == stringField(args, "end_time")
        Description == stringField(args, "description")
    IN  IF unmarshalFails(args, {"summary", "date", "start_time", "end_time", "description"})
        THEN Returned(RPCError(id, -32602, "Invalid arguments"))
        ELSE IF createMissing(Summary, Date, StartTime, EndTime)
        THEN Returned(RPCError(id, -32602, "summary, date, start_time, and end_time are required"))
        ELSE Called(Call("CreateEvent", [summary |-> Summary, description |-> Description,
                     date |-> Date, startTime |-> StartTime, endTime |-> EndTime], fake),
                    IF fake.err # Nil THEN errorResponse(id, fake.err)
                    ELSE successResponse(id, <<"Event created successfully!\nID: ", CannedResult.Id,
                                               "\nLink: ", CannedResult.HtmlLink>>))

eventIDMissingNever(eventID) == FALSE
eventIDMissing(eventID) == eventID = ""

callDeleteEvent(id, args, fake) ==
    LET EventID == stringField(args, "event_id")
    IN  IF unmarshalFails(args, {"event_id"})
        THEN Returned(RPCError(id, -32602, "Invalid arguments"))
        ELSE IF eventIDMissing(EventID)
        THEN Returned(RPCError(id, -32602, "event_id is required"))
        ELSE Called(Call("DeleteEvent", [eventID |-> EventID], fake),
                    IF fake.err # Nil THEN errorResponse(id, fake.err)
                    ELSE successResponse(id, <<"Event deleted successfully!">>))

\* EventUpdates{...}: a nil pointer for each member the caller left out
EventUpdates(args) ==
    [Summary |-> stringPtrField(args, "summary"),
     Description |-> stringPtrField(args, "description"),
     Date |-> stringPtrField(args, "date"),
     StartTime |-> stringPtrField(args, "start_time"),
     EndTime |-> stringPtrField(args, "end_time")]

callEditEvent(id, args, fake) ==
    LET EventID == stringField(args, "event_id")
    IN  IF unmarshalFails(args, {"event_id", "summary", "description", "date",
                                 "start_time", "end_time"})
        THEN Returned(RPCError(id, -32602, "Invalid arguments"))
        ELSE IF eventIDMissing(EventID)
        THEN Returned(RPCError(id, -32602, "event_id is required"))
        ELSE Called(Call("UpdateEvent", [eventID |-> EventID, updates |-> EventUpdates(args)], fake),
                    IF fake.err # Nil THEN errorResponse(id, fake.err)
                    ELSE successResponse(id, <<"Event updated successfully!\nID: ", CannedResult.Id,
                                               "\nSummary: ", CannedResult.Summary,
                                               "\nLink: ", CannedResult.HtmlLink>>))

----------------------------------------------------------------------------
(* Method handlers *)

handleInitialize(req) ==
    Result(req.ID, [protocolVersion |-> "2024-11-05",
                    serverInfo |-> [name |-> "google-calendar", version |-> "1.0.0"],
                    capabilities |-> [tools |-> NoValue]])

\* case "initialized": return nil
handleInitializedWithReply(req) == Result(req.ID, NoValue)
handleInitialized(req) == NoValue

\* the descriptors, each by its name and the members its schema requires
Tools ==
    <<[name |-> "list_events", required |-> {}],
      [name |-> "list_events_range", required |-> {"start_date", "end_date"}],
      [name |-> "create_event", required |-> {"summary", "date", "start_time", "end_time"}],
      [name |-> "delete_event", required |-> {"event_id"}],
      [name |-> "edit_event", required |-> {"event_id"}]>>

handleToolsListReordered(req) ==
    Result(req.ID, [tools |-> <<Tools[1], Tools[2], Tools[3], Tools[5], Tools[4]>>])
handleToolsList(req) == Result(req.ID, [tools |-> Tools])

\* json.Unmarshal(req.Params, &params) returns an error
paramsFail(p) == p.shape \in {"absent", "nonobject"} \/ (p.shape = "object" /\ p.name = NotString)

handleToolsCall(req, fake) ==
    LET Name == IF req.Params.shape = "object" THEN unmarshalString(req.Params.name) ELSE ""
        Arguments == req.Params.arguments
    IN  IF paramsFail(req.Params) THEN Returned(RPCError(req.ID, -32602, "Invalid params"))
        ELSE CASE Name = "list_events" -> callListEvents(req.ID, Arguments, fake)
               [] Name = "list_events_range" -> callListEventsRange(req.ID, Arguments, fake)
               [] Name = "create_event" -> callCreateEvent(req.ID, Arguments, fake)
               [] Name = "delete_event" -> callDeleteEvent(req.ID, Arguments, fake)
               [] Name = "edit_event" -> callEditEvent(req.ID, Arguments, fake)
               [] OTHER -> Returned(RPCError(req.ID, -32602, "Unknown tool: "))

methodNotFoundAsInvalidRequest(req) == RPCError(req.ID, -32600, "Method not found")
methodNotFound(req) == RPCError(req.ID, -32601, "Method not found")

handleRequest(req, fake) ==
    CASE req.Method = "initialize" -> Returned(handleInitialize(req))
      [] req.Method = "initialized" -> Returned(handleInitialized(req))
      [] req.Method = "tools/list" -> Returned(handleToolsList(req))
      [] req.Method = "tools/call" -> handleToolsCall(req, fake)
      [] OTHER -> Returned(methodNotFound(req))

----------------------------------------------------------------------------
(* The run loop *)

\* json.Marshal(resp): the line written for a response, kept by its id member,
\* whether it is the parse error, and the number of the input line being handled
\* when it is written
marshalResponse(resp, n) ==
    [src |-> n, id |-> marshalID(resp.id),
     parseError |-> resp.error # NoValue /\ resp.error.code = -32700]

\* fmt.Println(string(data)): one more line on standard output
sendResponseFirst(out, resp, n) == <<marshalResponse(resp, n)>> \o out
sendResponse(out, resp, n) == Append(out, marshalResponse(resp, n))

sendErrorDropped(out, id, code, message, n) == out
sendError(out, id, code, message, n) == sendResponse(out, RPCError(id, code, message), n)

\* for scanner.Scan(): the next line is read only at the head of the loop
canScan(p) == p = "scan"

Scan ==
    /\ canScan(pc)
    /\ nread < MaxLines
    /\ \E l \in Lines : line' = l
    /\ nread' = nread + 1
    /\ pc' = "handle"
    /\ response' = NoValue
    /\ calls' = <<>>
    /\ UNCHANGED <<nhandled, stdout>>

\* if len(line) == 0 { continue }
SkipEmpty ==
    /\ pc = "handle"
    /\ line.kind = "empty"
    /\ pc' = "scan"
    /\ nhandled' = nhandled + 1
    /\ UNCHANGED <<nread, line, response, calls, stdout>>

\* json.Unmarshal fails: s.sendError(nil, -32700, "Parse error", err.Error()); continue
ParseError ==
    /\ pc = "handle"
    /\ line.kind = "malformed"
    /\ response' = RPCError(Nil, -32700, "Parse error")
    /\ stdout' = sendError(stdout, Nil, -32700, "Parse error", nread)
    /\ pc' = "scan"
    /\ nhandled' = nhandled + 1
    /\ UNCHANGED <<nread, line, calls>>

\* response := s.handleRequest(req); if response != nil { s.sendResponse(response) }
HandleLine ==
    /\ pc = "handle"
    /\ line.kind = "request"
    /\ \E fake \in Fakes :
        LET h == handleRequest(unmarshalRequest(line), fake)
        IN  /\ response' = h.resp
            /\ calls' = h.calls
            /\ stdout' = IF h.resp # NoValue THEN sendResponse(stdout, h.resp, nread)
                         ELSE stdout
    /\ pc' = "scan"
    /\ nhandled' = nhandled + 1
    /\ UNCHANGED <<nread, line>>

\* scanner.Scan() returns false at the end of the input: run returns
EndOfInput ==
    /\ pc = "scan"
    /\ pc' = "done"
    /\ UNCHANGED <<nread, nhandled, line, response, calls, stdout>>

\* scanner.Buffer(buf, 1024*1024): on a longer line scanner.Scan() returns false
\* too, the line is never handed out and run returns
LineTooLong ==
    /\ canScan(pc)
    /\ nread < MaxLines
    /\ pc' = "toolong"
    /\ UNCHANGED <<nread, nhandled, line, response, calls, stdout>>

Init ==
    /\ pc = "scan"
    /\ nread = 0
    /\ nhandled = 0
    /\ line = EmptyLine
    /\ response = NoValue
    /\ calls = <<>>
    /\ stdout = <<>>
    /\ timezone = "UTC"
    /\ store = NoValue
    /\ op = NoValue

Next ==
    \/ Scan /\ UNCHANGED calVars
    \/ SkipEmpty /\ UNCHANGED calVars
    \/ ParseError /\ UNCHANGED calVars
    \/ HandleLine /\ UNCHANGED calVars
    \/ EndOfInput /\ UNCHANGED calVars
    \/ LineTooLong /\ UNCHANGED calVars

Spec == Init /\ [][Next]_vars

----------------------------------------------------------------------------
(* The calendar adapter (CalendarClient).  An instant is a number of seconds *)
(* since 00:00:00 UTC of day 0; a day has 86400 seconds.                     *)

MaxOps == 1

\* strings that hold a date (YYYY-MM-DD) or a time of day (HH:MM); a nil *string
\* in such a slot is NoValue
DateStr(day) == [s |-> "date", day |-> day]
TimeStr(min) == [s |-> "time", min |-> min]
EmptyStr == [s |-> "empty"]
BadStr == [s |-> "bad"]

\* time.LoadLocation(c.timezone); on an error the callers take time.UTC
KnownZones == {"UTC", "Asia/Dubai"}
loadLocation(name) == IF name \in KnownZones THEN name ELSE "UTC"
zoneOffset(loc) == IF loc = "Asia/Dubai" THEN 4 * 3600 ELSE 0

\* a timestamp string in time.RFC3339: the instant and the offset it is written with
formatRFC3339(t, loc) == [t |-> t, off |-> zoneOffset(loc)]
\* time.Parse(time.RFC3339, s)
parseRFC3339(s) == s.t
\* t.In(loc).Format("2006-01-02") and t.In(loc).Format("15:04")
formatDate(t, loc) == DateStr((t + zoneOffset(loc)) \div 86400)
formatHHMM(t, loc) == TimeStr(((t + zoneOffset(loc)) % 86400) \div 60)
\* time.ParseInLocation("2006-01-02T15:04:05", date + "T" + hhmm + ":00", loc)
parseInLocationLenient(date, hhmm, loc) ==
    IF date.s = "date" /\ hhmm.s = "time"
    THEN [ok |-> TRUE, t |-> date.day * 86400 + hhmm.min * 60 - zoneOffset(loc)]
    ELSE [ok |-> TRUE, t |-> 0]
parseInLocation(date, hhmm, loc) ==
    IF date.s = "date" /\ hhmm.s = "time"
    THEN [ok |-> TRUE, t |-> date.day * 86400 + hhmm.min * 60 - zoneOffset(loc)]
    ELSE [ok |-> FALSE, t |-> 0]

\* calendar.EventDateTime: a timestamp, or a bare date for an all-day event
Timed(t, off, tz) == [DateTime |-> [t |-> t, off |-> off], Date |-> NoValue, TimeZone |-> tz]
AllDay(day) == [DateTime |-> NoValue, Date |-> DateStr(day), TimeZone |-> ""]
At(day, min, sec) == day * 86400 + min * 60 + sec

\* events the provider may hold when the adapter starts
InitialEvents ==
    {[Summary |-> "Standup", Description |-> "daily", Start |-> s, End |-> e] :
        <<s, e>> \in
          {<<Timed(At(1, 600, 0), 0, "UTC"), Timed(At(1, 660, 0), 0, "UTC")>>,
           <<Timed(At(1, 600, 0), 4 * 3600, "Asia/Dubai"), Timed(At(1, 660, 0), 4 * 3600, "Asia/Dubai")>>,
           <<Timed(At(1, 1380, 0), 0, ""), Timed(At(2, 60, 0), 0, "")>>,
           <<Timed(At(1, 600, 30), 0, ""), Timed(At(1, 660, 0), 0, "")>>,
           <<AllDay(1), AllDay(2)>>}}

EventIDs == {"evt-1", "evt-404"}
ProviderErrors == {"googleapi: Error 403: Forbidden"}

\* EventUpdates values: nil where the caller leaves a member out
UpdateSets ==
    [Summary : {Nil, "Updated"}, Description : {Nil, "notes"},
     Date : {NoValue, DateStr(5), EmptyStr},
     StartTime : {NoValue, TimeStr(720), BadStr},
     EndTime : {NoValue, TimeStr(780)}]

\* NewCalendarClient: if timezone == "" { timezone = defaultTimezone }
defaultTimezone == "UTC"
NewCalendarClient(tz) == IF tz = "" THEN defaultTimezone ELSE tz

\* if updates.Date != nil || updates.StartTime != nil || updates.EndTime != nil
hasTimeUpdateAlways(updates) == TRUE
hasTimeUpdate(updates) ==
    updates.Date # NoValue \/ updates.StartTime # NoValue \/ updates.EndTime # NoValue

\* the event UpdateEvent hands to Events.Update, or the failure before it
updatedEvent(existing, updates, tz) ==
    LET applied == [existing EXCEPT
                      !.Summary = IF updates.Summary # Nil THEN updates.Summary ELSE @,
                      !.Description = IF updates.Description # Nil THEN updates.Description ELSE @]
        loc == loadLocation(tz)
        hasStart == existing.Start.DateTime # NoValue
        hasEnd == existing.End.DateTime # NoValue
        currentDate == IF hasStart THEN formatDate(parseRFC3339(existing.Start.DateTime), loc)
                       ELSE EmptyStr
        currentStartTime == IF hasStart THEN formatHHMM(parseRFC3339(existing.Start.DateTime), loc)
                            ELSE EmptyStr
        currentEndTime == IF hasEnd THEN formatHHMM(parseRFC3339(existing.End.DateTime), loc)
                          ELSE EmptyStr
        date == IF updates.Date # NoValue THEN updates.Date ELSE currentDate
        startTime == IF updates.StartTime # NoValue THEN updates.StartTime ELSE currentStartTime
        endTime == IF updates.EndTime # NoValue THEN updates.EndTime ELSE currentEndTime
        start == parseInLocation(date, startTime, loc)
        end == parseInLocation(date, endTime, loc)
    IN  IF ~hasTimeUpdate(updates) THEN [err |-> Nil, event |-> applied]
        ELSE IF ~start.ok THEN [err |-> "parsing time: start", event |-> NoValue]
        ELSE IF ~end.ok THEN [err |-> "parsing time: end", event |-> NoValue]
        ELSE [err |-> Nil,
              event |-> [applied EXCEPT
                  !.Start = [DateTime |-> formatRFC3339(start.t, loc), Date |-> NoValue,
                             TimeZone |-> tz],
                  !.End = [DateTime |-> formatRFC3339(end.t, loc), Date |-> NoValue,
                           TimeZone |-> tz]]]

\* UpdateEvent: Events.Get, the changes, Events.Update.  getErr and updateErr are
\* what the provider answers to the two requests besides "not found".
UpdateEvent ==
    /\ op.n < MaxOps
    /\ \E eventID \in EventIDs, updates \in UpdateSets,
          getErr \in ProviderErrors \cup {Nil}, updateErr \in ProviderErrors \cup {Nil} :
        LET existing == store[eventID]
            fetchErr == IF getErr # Nil THEN getErr
                        ELSE IF existing = NoValue THEN "googleapi: Error 404: Not Found"
                        ELSE Nil
            new == updatedEvent(existing, updates, timezone)
        IN  IF fetchErr # Nil
            THEN /\ op' = [n |-> op.n + 1, name |-> "UpdateEvent", eventID |-> eventID,
                           updates |-> updates, fetched |-> NoValue, written |-> NoValue,
                           err |-> fetchErr]
                 /\ UNCHANGED store
            ELSE IF new.err # Nil
            THEN /\ op' = [n |-> op.n + 1, name |-> "UpdateEvent", eventID |-> eventID,
                           updates |-> updates, fetched |-> existing, written |-> NoValue,
                           err |-> new.err]
                 /\ UNCHANGED store
            ELSE /\ op' = [n |-> op.n + 1, name |-> "UpdateEvent", eventID |-> eventID,
                           updates |-> updates, fetched |-> existing, written |-> new.event,
                           err |-> updateErr]
                 /\ store' = IF updateErr = Nil THEN [store EXCEPT ![eventID] = new.event]
                             ELSE store
    /\ UNCHANGED timezone

\* time.ParseInLocation("2006-01-02", date, loc): midnight of the date in loc
parseDateInLocation(date, loc) ==
    IF date.s = "date" THEN [ok |-> TRUE, t |-> date.day * 86400 - zoneOffset(loc)]
    ELSE [ok |-> FALSE, t |-> 0]

\* t.AddDate(0, 0, days) of a time in loc: the same time of day, days later
addDateNothing(t, days, loc) == t
addDate(t, days, loc) ==
    LET local == t + zoneOffset(loc)
    IN  ((local \div 86400) + days) * 86400 + (local % 86400) - zoneOffset(loc)

\* the instants at which a stored event starts and ends; the provider takes the
\* dates of an all-day event at midnight
startInstant(e) == IF e.Start.DateTime # NoValue THEN e.Start.DateTime.t
                   ELSE e.Start.Date.day * 86400
endInstant(e) == IF e.End.DateTime # NoValue THEN e.End.DateTime.t
                 ELSE e.End.Date.day * 86400

\* Events.List(...).TimeMin(timeMin).TimeMax(timeMax): the events that end after
\* timeMin and start before timeMax
eventsList(st, timeMin, timeMax) ==
    {id \in EventIDs : /\ st[id] # NoValue
                       /\ endInstant(st[id]) > parseRFC3339(timeMin)
                       /\ startInstant(st[id]) < parseRFC3339(timeMax)}

\* listEvents: a CalendarEvent for each item, its start and end taken from DateTime
\* or, when that is empty, from Date.  The result is kept as a set: the order the
\* provider returns the items in is not modelled.
listEvents(st, timeMin, timeMax) ==
    {[ID |-> id, Summary |-> st[id].Summary,
      Start |-> IF st[id].Start.DateTime # NoValue THEN st[id].Start.DateTime
                ELSE st[id].Start.Date,
      End |-> IF st[id].End.DateTime # NoValue THEN st[id].End.DateTime
              ELSE st[id].End.Date] : id \in eventsList(st, timeMin, timeMax)}

\* dates callers pass to ListEventsRange
RangeDates == {DateStr(1), DateStr(2), BadStr}

\* ListEventsRange: both dates parsed in the adapter's location, one day added to
\* the end, one Events.List request.  listErr is what the provider answers to it.
ListEventsRange ==
    /\ op.n < MaxOps
    /\ \E startDate \in RangeDates, endDate \in RangeDates,
          listErr \in ProviderErrors \cup {Nil} :
        LET loc == loadLocation(timezone)
            start == parseDateInLocation(startDate, loc)
            end == parseDateInLocation(endDate, loc)
            timeMin == formatRFC3339(start.t, loc)
            timeMax == formatRFC3339(addDate(end.t, 1, loc), loc)
            called == [n |-> op.n + 1, name |-> "ListEventsRange", startDate |-> startDate,
                       endDate |-> endDate, query |-> NoValue, result |-> {}, err |-> Nil]
        IN  IF ~start.ok THEN op' = [called EXCEPT !.err = "parsing time: start"]
            ELSE IF ~end.ok THEN op' = [called EXCEPT !.err = "parsing time: end"]
            ELSE op' = [called EXCEPT
                          !.query = [timeMin |-> timeMin, timeMax |-> timeMax],
                          !.result = IF listErr = Nil THEN listEvents(store, timeMin, timeMax)
                                     ELSE {},
                          !.err = listErr]
    /\ UNCHANGED <<timezone, store>>

\* what callers pass to CreateEvent
CreateDates == {DateStr(5), EmptyStr}
CreateStartTimes == {TimeStr(720), BadStr}
CreateEndTimes == {TimeStr(780), BadStr}

\* CreateEvent: start and end composed from the date and the two times in the
\* adapter's location, one Events.Insert request.  insertErr is what the provider
\* answers to it; the provider gives the new event an id that is not in use.
CreateEvent ==
    /\ op.n < MaxOps
    /\ \E id \in EventIDs : store[id] = NoValue
    /\ \E date \in CreateDates, startTime \in CreateStartTimes, endTime \in CreateEndTimes,
          insertErr \in ProviderErrors \cup {Nil} :
        LET loc == loadLocation(timezone)
            start == parseInLocation(date, startTime, loc)
            end == parseInLocation(date, endTime, loc)
            event == [Summary |-> "Lunch", Description |-> "",
                      Start |-> [DateTime |-> formatRFC3339(start.t, loc), Date |-> NoValue,
                                 TimeZone |-> timezone],
                      End |-> [DateTime |-> formatRFC3339(end.t, loc), Date |-> NoValue,
                               TimeZone |-> timezone]]
            newID == CHOOSE id \in EventIDs : store[id] = NoValue
            called == [n |-> op.n + 1, name |-> "CreateEvent", eventID |-> "",
                       written |-> NoValue, err |-> Nil]
        IN  IF ~start.ok THEN op' = [called EXCEPT !.err = "parsing time: start"] /\ UNCHANGED store
            ELSE IF ~end.ok THEN op' = [called EXCEPT !.err = "parsing time: end"] /\ UNCHANGED store
            ELSE IF insertErr # Nil
            THEN op' = [called EXCEPT !.written = event, !.err = insertErr] /\ UNCHANGED store
            ELSE /\ op' = [called EXCEPT !.eventID = newID, !.written = event]
                 /\ store' = [store EXCEPT ![newID] = event]
    /\ UNCHANGED timezone

\* DeleteEvent: one Events.Delete request
DeleteEvent ==
    /\ op.n < MaxOps
    /\ \E eventID \in EventIDs, deleteErr \in ProviderErrors \cup {Nil} :
        LET err == IF deleteErr # Nil THEN deleteErr
                   ELSE IF store[eventID] = NoValue THEN "googleapi: Error 404: Not Found"
                   ELSE Nil
        IN  /\ op' = [n |-> op.n + 1, name |-> "DeleteEvent", eventID |-> eventID, err |-> err]
            /\ store' = IF err = Nil THEN [store EXCEPT ![eventID] = NoValue] ELSE store
    /\ UNCHANGED timezone
NoOp == [n |-> 0, name |-> "", eventID |-> "", updates |-> NoValue, fetched |-> NoValue,
         written |-> NoValue, err |-> Nil]

InitCal ==
    /\ pc = "scan" /\ nread = 0 /\ nhandled = 0 /\ line = EmptyLine
    /\ response = NoValue /\ calls = <<>> /\ stdout = <<>>
    /\ \E tz \in {"", "UTC", "Asia/Dubai", "Mars/Olympus"} : timezone = NewCalendarClient(tz)
    /\ \E e \in InitialEvents : store = [id \in EventIDs |-> IF id = "evt-1" THEN e ELSE NoValue]
    /\ op = NoOp

NextCal ==
    \/ UpdateEvent /\ UNCHANGED srvVars
    \/ ListEventsRange /\ UNCHANGED srvVars
    \/ CreateEvent /\ UNCHANGED srvVars
    \/ DeleteEvent /\ UNCHANGED srvVars

SpecCal == InitCal /\ [][NextCal]_vars

----------------------------------------------------------------------------
(* Properties of the dispatcher *)

\* the line read last has been handled to the end of the loop body
Handled == nread > 0 /\ nhandled = nread /\ pc # "handle"
IsRequest == line.kind = "request"
IsToolsCall == IsRequest /\ line.method = "tools/call"
IsToolCallOf(name) == IsToolsCall /\ line.params.shape = "object" /\ line.params.name = name
\* where on standard output the answers to the line read last are
WrittenForLine == {i \in 1..Len(stdout) : stdout[i].src = nread}
IsRPCError(code) == response # NoValue /\ response.result = NoValue /\ response.error # NoValue
                    /\ response.error.code = code

\* C1: every request other than `initialized` sent without an id gets exactly one
\* response, which carries the request's id; also `initialized` sent with an id.
C1_EveryOtherRequestAnswered ==
    Handled /\ IsRequest /\ ~(line.method = "initialized" /\ line.id = Absent)
    => /\ response # NoValue
       /\ response.id = unmarshalRequest(line).ID
       /\ Cardinality(WrittenForLine) = 1

\* C2: `initialized` without an id gets no response, nothing is written for it and
\* the adapter is not called.
C2_NotificationSilent ==
    Handled /\ IsRequest /\ line.method = "initialized" /\ line.id = Absent
    => /\ response = NoValue
       /\ WrittenForLine = {}
       /\ calls = <<>>

C2_Witness ==
    /\ Handled /\ IsRequest /\ line.method = "initialized" /\ line.id = Absent
    /\ nread = 2 /\ Len(stdout) = 1

\* C3: responses are written in the order of their lines, the response to a line is
\* written while that line is the one being handled, and a line is read only when
\* the one before it has been handled: at most one request is in flight.
C3_InOrder ==
    /\ nread - nhandled \in {0, 1}
    /\ (pc = "handle") <=> (nread = nhandled + 1)
    /\ \A i \in 1..Len(stdout) : stdout[i].src \in 1..nread
    /\ \A i, j \in 1..Len(stdout) : i < j => stdout[i].src < stdout[j].src
    /\ pc = "handle" => WrittenForLine = {}
    /\ Handled => (WrittenForLine # {} <=> response # NoValue)

C3_Step ==
    /\ nread' # nread => nhandled = nread /\ stdout' = stdout
    /\ stdout' # stdout =>
          /\ nread' = nread /\ nhandled' = nread
          /\ response' # NoValue
          /\ Len(stdout') = Len(stdout) + 1
          /\ SubSeq(stdout', 1, Len(stdout)) = stdout
          /\ stdout'[Len(stdout')].src = nread
          /\ stdout'[Len(stdout')].id = marshalID(response'.id)

C3_ResponsesInOrder == []C3_InOrder /\ [][C3_Step]_vars

C3_Witness ==
    /\ Handled /\ nread = 3 /\ Len(stdout) = 2
    /\ stdout[1].src = 1 /\ stdout[2].src = 3
    /\ stdout[1].id # stdout[2].id

\* C4: when the adapter fails in any of the five tool calls, the response has a
\* result and no error object, the result has isError = true and its text holds the
\* error's description.
C4_AdapterFailureIsResult ==
    Handled /\ Len(calls) > 0 /\ calls[1].err # Nil
    => /\ calls[1].op \in {"ListEventsForDays", "ListEventsRange", "CreateEvent",
                           "DeleteEvent", "UpdateEvent"}
       /\ response # NoValue
       /\ response.error = NoValue
       /\ response.result # NoValue
       /\ "isError" \in DOMAIN response.result
       /\ response.result.isError = TRUE
       /\ \E i \in 1..Len(response.result.content[1].text) :
             response.result.content[1].text[i] = calls[1].err

C4_Witness ==
    /\ Handled /\ Len(calls) = 1 /\ calls[1].op = "UpdateEvent"
    /\ calls[1].err = "googleapi: Error 404: Not Found"

\* what C5 says of the arguments as written: which members each tool requires
Required(name) ==
    CASE name = "list_events_range" -> {"start_date", "end_date"}
      [] name = "create_event" -> {"summary", "date", "start_time", "end_time"}
      [] name = "delete_event" -> {"event_id"}
      [] name = "edit_event" -> {"event_id"}
      [] OTHER -> {}
Members(name) ==
    CASE name = "list_events_range" -> {"start_date", "end_date"}
      [] name = "create_event" -> {"summary", "date", "start_time", "end_time", "description"}
      [] name = "delete_event" -> {"event_id"}
      [] name = "edit_event" -> {"event_id", "summary", "description", "date",
                                 "start_time", "end_time"}
      [] OTHER -> {}
ArgumentsRejected(name, a) ==
    \/ a.shape # "object"
    \/ \E f \in Members(name) : a.obj[f] = NotString
    \/ \E f \in Required(name) : a.obj[f] \in {Absent, Null, ""}

\* C5: list_events_range, create_event, delete_event and edit_event answer with
\* error -32602 and without calling the adapter when the arguments cannot be
\* decoded or a required argument is absent or empty.
C5_MissingRequiredIsInvalidParams ==
    \A name \in {"list_events_range", "create_event", "delete_event", "edit_event"} :
        Handled /\ IsToolCallOf(name) /\ ArgumentsRejected(name, line.params.arguments)
        => IsRPCError(-32602) /\ calls = <<>>

C5_Witness ==
    /\ Handled /\ IsToolCallOf("list_events_range")
    /\ line.params.arguments.shape = "object"
    /\ line.params.arguments.obj.start_date = "2026-03-01"
    /\ line.params.arguments.obj.end_date = Absent
    /\ IsRPCError(-32602)

\* C6: a method that is none of initialize, initialized, tools/list, tools/call is
\* answered with error -32601; a tools/call whose params cannot be decoded or whose
\* tool name is none of the five is answered with -32602; neither calls the adapter.
C6_ExactRouting ==
    /\ Handled /\ IsRequest
       /\ line.method \notin {"initialize", "initialized", "tools/list", "tools/call"}
       => IsRPCError(-32601) /\ calls = <<>>
    /\ Handled /\ IsToolsCall
       /\ (\/ line.params.shape # "object"
           \/ line.params.name \notin {"list_events", "list_events_range", "create_event",
                                       "delete_event", "edit_event"})
       => IsRPCError(-32602) /\ calls = <<>>

C6_Witness == Handled /\ IsRequest /\ line.method = "Tools/List" /\ IsRPCError(-32601)

\* C7: tools/list answers with the five descriptors list_events, list_events_range,
\* create_event, delete_event, edit_event in this order, whatever was handled
\* before, and does not call the adapter.
C7_ToolsListFixed ==
    Handled /\ IsRequest /\ line.method = "tools/list"
    => /\ response # NoValue /\ response.error = NoValue
       /\ Len(response.result.tools) = 5
       /\ [i \in 1..5 |-> response.result.tools[i].name]
            = <<"list_events", "list_events_range", "create_event", "delete_event", "edit_event">>
       /\ calls = <<>>

C7_Witness ==
    /\ Handled /\ IsRequest /\ line.method = "tools/list"
    /\ nread = 3 /\ Len(stdout) = 3

\* what C8 says of `days` as written
DaysOf(a) == IF a.shape = "object" THEN a.obj.days ELSE NoArgs.days
\* a positive integer, however it is written
DaysIsPositiveInteger(d) == (d.lit \in {"int", "intfrac"} /\ d.n > 0) \/ d.lit = "bigint"
\* a positive integer written in digits alone and within the range of int
DaysIsPositiveInt(d) == d.lit = "int" /\ d.n > 0
\* the call got the literal's value; a "bigint" is above every value a call can get
PassedExactly(d) == d.lit # "bigint" /\ calls[1].args.days = d.n

ListEventsCalledOnce ==
    /\ Len(calls) = 1 /\ calls[1].op = "ListEventsForDays"
    /\ response # NoValue /\ response.error = NoValue

\* C8 as stated: list_events passes 7 when days is absent, non-positive or
\* unparsable and exactly n when days is a positive integer n, and never answers
\* with a protocol-level error.
C8_DaysDefault ==
    Handled /\ IsToolCallOf("list_events")
    => /\ ListEventsCalledOnce
       /\ IF DaysIsPositiveInteger(DaysOf(line.params.arguments))
          THEN PassedExactly(DaysOf(line.params.arguments))
          ELSE calls[1].args.days = 7

\* C8, amended: list_events passes exactly n when days is a positive integer n
\* written in digits alone and within the range of int, and 7 for everything else
\* (absent, null, non-positive, not a number, a fraction, an integer written with a
\* fraction or exponent, an integer above the range of int, arguments that are no
\* object); it never answers with a protocol-level error.
C8_DaysDefaultAmended ==
    Handled /\ IsToolCallOf("list_events")
    => /\ ListEventsCalledOnce
       /\ IF DaysIsPositiveInt(DaysOf(line.params.arguments))
          THEN PassedExactly(DaysOf(line.params.arguments))
          ELSE calls[1].args.days = 7

C8_Witness ==
    /\ Handled /\ IsToolCallOf("list_events")
    /\ DaysOf(line.params.arguments) = [lit |-> "int", n |-> 14]
    /\ Len(calls) = 1 /\ calls[1].args.days = 14

----------------------------------------------------------------------------
(* Properties of UpdateEvent *)

IsUpdate == op.name = "UpdateEvent"
TimeMembersAbsent ==
    op.updates.Date = NoValue /\ op.updates.StartTime = NoValue /\ op.updates.EndTime = NoValue
TimeMembersAllPresent ==
    op.updates.Date # NoValue /\ op.updates.StartTime # NoValue /\ op.updates.EndTime # NoValue
PartialTimeUpdate == ~TimeMembersAbsent /\ ~TimeMembersAllPresent

\* C9: an update set without date, start_time and end_time writes back the fetched
\* event's start and end markers exactly as fetched (timed or all-day); the title
\* changes only if summary is present and the description only if description is.
C9_NoTimeMemberLeavesMarkers ==
    IsUpdate /\ TimeMembersAbsent /\ op.fetched # NoValue
    => /\ op.written # NoValue
       /\ op.written.Start = op.fetched.Start
       /\ op.written.End = op.fetched.End
       /\ op.written.Summary = (IF op.updates.Summary # Nil THEN op.updates.Summary
                                ELSE op.fetched.Summary)
       /\ op.written.Description = (IF op.updates.Description # Nil THEN op.updates.Description
                                    ELSE op.fetched.Description)

C9_Witness ==
    /\ IsUpdate /\ TimeMembersAbsent
    /\ op.updates.Summary = "Updated" /\ op.updates.Description = Nil
    /\ op.fetched # NoValue /\ op.fetched.Start.Date = DateStr(1)
    /\ op.err = Nil
    /\ store[op.eventID].Summary = "Updated"
    /\ store[op.eventID].Description = "daily"
    /\ store[op.eventID].Start = AllDay(1)

\* the date and the time of day (in seconds) of a written or fetched timestamp, in
\* the adapter's location
LocalDay(dt) == (dt.t + zoneOffset(loadLocation(timezone))) \div 86400
LocalSecond(dt) == (dt.t + zoneOffset(loadLocation(timezone))) % 86400

\* C10: a partial time update (some but not all of date, start_time, end_time)
\* leaves every member that is not in the update set as it was fetched: updating
\* only start_time leaves the date and the end timestamp unchanged, updating only
\* end_time leaves the start timestamp unchanged.
C10_PartialUpdateKeepsUnset ==
    IsUpdate /\ PartialTimeUpdate /\ op.written # NoValue
    => LET fs == op.fetched.Start.DateTime
           fe == op.fetched.End.DateTime
           ws == op.written.Start.DateTime
           we == op.written.End.DateTime
       IN  /\ op.updates.Date = NoValue
              => LocalDay(ws) = LocalDay(fs) /\ LocalDay(we) = LocalDay(fe)
           /\ op.updates.StartTime = NoValue => LocalSecond(ws) = LocalSecond(fs)
           /\ op.updates.EndTime = NoValue => LocalSecond(we) = LocalSecond(fe)
           /\ op.updates.Date = NoValue /\ op.updates.EndTime = NoValue => we.t = fe.t
           /\ op.updates.Date = NoValue /\ op.updates.StartTime = NoValue => ws.t = fs.t

----------------------------------------------------------------------------
\* the event_id member of a tools/call's arguments, as the caller wrote it
SuppliedEventID ==
    IF line.params.arguments.shape = "object" THEN line.params.arguments.obj.event_id
    ELSE Absent
NoEventID == SuppliedEventID \in {Absent, Null, ""}
NonEmptyEventID == SuppliedEventID \notin {Absent, Null, "", NotString}

\* C11: delete_event with a non-empty event_id calls the adapter's DeleteEvent once
\* with exactly that id and, when the adapter succeeds, answers with a result that
\* has no isError flag and carries the text "Event deleted successfully!"; with no
\* event_id (absent, null or empty) it answers -32602 and DeleteEvent is not called.
C11_DeleteEvent ==
    Handled /\ IsToolCallOf("delete_event")
    => /\ NonEmptyEventID
          => /\ Len(calls) = 1
             /\ calls[1].op = "DeleteEvent"
             /\ calls[1].args = [eventID |-> SuppliedEventID]
             /\ calls[1].err = Nil
                => /\ response # NoValue
                   /\ response.error = NoValue
                   /\ response.result =
                         [content |-> <<[type |-> "text",
                                         text |-> <<"Event deleted successfully!">>]>>]
       /\ NoEventID => IsRPCError(-32602) /\ calls = <<>>

C11_Witness ==
    /\ Handled /\ IsToolCallOf("delete_event")
    /\ SuppliedEventID = "evt-del"
    /\ Len(calls) = 1 /\ calls[1].err = Nil
    /\ response.result # NoValue

\* C14: a request without an id member gets no response whatever its method, and
\* the response to a request with an id carries that id exactly as it was written.
C14_NotificationByIdAndEcho ==
    Handled /\ IsRequest
    => /\ line.id = Absent => response = NoValue /\ WrittenForLine = {}
       /\ line.id # Absent
          => /\ response # NoValue
             /\ \E i \in WrittenForLine : stdout[i].id = line.id

\* the lines written so far for malformed input lines read before the current one
ParseErrorsBefore == {i \in 1..Len(stdout) : stdout[i].parseError /\ stdout[i].src < nread}

\* C15: a malformed line is answered by exactly one error response with code
\* -32700 and no id, no adapter operation is called for it, and the loop returns
\* to reading; a request read after malformed lines is answered as usual, by
\* exactly one response (`initialized`, which has none, aside).
C15_Inv ==
    /\ Handled /\ line.kind = "malformed"
       => /\ IsRPCError(-32700)
          /\ calls = <<>>
          /\ Cardinality(WrittenForLine) = 1
          /\ \A i \in WrittenForLine : stdout[i].parseError /\ stdout[i].id = Absent
    /\ Handled /\ IsRequest /\ line.method # "initialized" /\ ParseErrorsBefore # {}
       => /\ response # NoValue
          /\ response.id = unmarshalRequest(line).ID
          /\ Cardinality(WrittenForLine) = 1
          /\ \A i \in WrittenForLine : ~stdout[i].parseError

C15_Step ==
    pc = "handle" /\ line.kind = "malformed"
    => /\ pc' = "scan"
       /\ nhandled' = nread
       /\ Len(stdout') = Len(stdout) + 1

C15_ParseErrorNotFatal == []C15_Inv /\ [][C15_Step]_vars

C15_Witness ==
    /\ Handled /\ IsToolCallOf("list_events") /\ nread = 3
    /\ Cardinality(ParseErrorsBefore) = 2
    /\ Len(stdout) = 3 /\ ~stdout[3].parseError
    /\ Len(calls) = 1

\* a member of the arguments as the caller wrote it, and whether the caller
\* supplied it at all
Supplied(f) == line.params.arguments.obj[f]
IsSupplied(f) == Supplied(f) \notin {Absent, Null}
\* the member of the update set the adapter was given: the value, or Nil when unset
SparseMember(f) == IF IsSupplied(f) THEN Supplied(f) ELSE Nil

OptionalEditMembers == {"summary", "description", "date", "start_time", "end_time"}

\* C17: edit_event with a non-empty event_id (and string values for the members it
\* supplies) calls the adapter's UpdateEvent once with that id and an update set in
\* which each of summary, description, date, start_time, end_time holds the
\* supplied value when the caller supplied it and is unset otherwise; with
\* event_id alone the update set is empty.
C17_SparseUpdateSet ==
    Handled /\ IsToolCallOf("edit_event") /\ NonEmptyEventID
    /\ (\A f \in OptionalEditMembers : Supplied(f) # NotString)
    => /\ Len(calls) = 1
       /\ calls[1].op = "UpdateEvent"
       /\ calls[1].args.eventID = SuppliedEventID
       /\ calls[1].args.updates =
             [Summary |-> SparseMember("summary"),
              Description |-> SparseMember("description"),
              Date |-> SparseMember("date"),
              StartTime |-> SparseMember("start_time"),
              EndTime |-> SparseMember("end_time")]
       /\ (\A f \in OptionalEditMembers : ~IsSupplied(f))
          => calls[1].args.updates =
                [Summary |-> Nil, Description |-> Nil, Date |-> Nil,
                 StartTime |-> Nil, EndTime |-> Nil]

C17_Witness ==
    /\ Handled /\ IsToolCallOf("edit_event") /\ NonEmptyEventID
    /\ Len(calls) = 1
    /\ calls[1].args.updates.Summary = "Updated"
    /\ calls[1].args.updates.Description = Nil
    /\ calls[1].args.updates.Date = Nil
    /\ calls[1].args.updates.StartTime = "12:00"
    /\ calls[1].args.updates.EndTime = Nil

\* only event_id supplied: the empty update set
C17_WitnessEmpty ==
    /\ Handled /\ IsToolCallOf("edit_event") /\ NonEmptyEventID
    /\ Len(calls) = 1
    /\ \A f \in OptionalEditMembers : ~IsSupplied(f)

\* the line read last is a tools/call of one of the five tools whose arguments
\* pass the tool's validation (list_events has none)
PassesValidation ==
    \E name \in {"list_events", "list_events_range", "create_event", "delete_event",
                 "edit_event"} :
        /\ IsToolCallOf(name)
        /\ name # "list_events" => ~ArgumentsRejected(name, line.params.arguments)

\* C18: handling one line calls the adapter at most once: exactly once for a
\* tools/call that passes validation and not at all otherwise; when that one call
\* fails, the failure is reported in the single response to the request.
C18_NoRetries ==
    Handled
    => /\ Len(calls) <= 1
       /\ Len(calls) = 1 <=> PassesValidation
       /\ Len(calls) = 1 /\ calls[1].err # Nil
          => /\ Cardinality(WrittenForLine) = 1
             /\ response # NoValue
             /\ response.result # NoValue
             /\ response.result.content[1].text = <<"Error: ", calls[1].err>>

C18_Witness ==
    /\ Handled /\ IsToolCallOf("create_event")
    /\ Len(calls) = 1 /\ calls[1].op = "CreateEvent"
    /\ calls[1].err = "context deadline exceeded"
    /\ Cardinality(WrittenForLine) = 1

\* C19: every response the dispatcher produces, the parse error included, has
\* either a result or an error object, never both and never neither.
C19_ResultXorError ==
    response # NoValue
    => /\ response.jsonrpc = "2.0"
       /\ (response.result # NoValue) # (response.error # NoValue)

\* both kinds have been produced: a result for an adapter failure here, after an
\* error object for the line before
C19_Witness ==
    /\ Handled /\ nread = 2
    /\ Len(calls) = 1 /\ calls[1].err # Nil
    /\ response.result # NoValue /\ response.error = NoValue
    /\ Len(stdout) = 2 /\ stdout[1].parseError

----------------------------------------------------------------------------
IsListRange == op.name = "ListEventsRange"
ValidPair == op.startDate.s = "date" /\ op.endDate.s = "date"

\* C12: for every valid pair of dates ListEventsRange asks the provider for the
\* window from midnight of start_date to midnight of the day after end_date, both
\* in the adapter's timezone, so that an event starting at any time of end_date is
\* in the answer; with start_date = end_date the window is one day long.
C12_EndDateInclusive ==
    IsListRange /\ ValidPair
    => /\ op.query # NoValue
       /\ LocalDay(op.query.timeMin) = op.startDate.day
       /\ LocalSecond(op.query.timeMin) = 0
       /\ LocalDay(op.query.timeMax) = op.endDate.day + 1
       /\ LocalSecond(op.query.timeMax) = 0
       /\ op.startDate = op.endDate => op.query.timeMax.t - op.query.timeMin.t = 86400
       /\ op.err = Nil /\ op.startDate.day <= op.endDate.day
          => \A id \in EventIDs :
                /\ store[id] # NoValue
                /\ store[id].Start.DateTime # NoValue
                /\ LocalDay(store[id].Start.DateTime) = op.endDate.day
                => \E e \in op.result : e.ID = id

\* a one-day window that holds an event starting at 23:00 of the end date
C12_Witness ==
    /\ IsListRange /\ ValidPair /\ op.err = Nil
    /\ op.startDate = op.endDate
    /\ \E e \in op.result : /\ "t" \in DOMAIN e.Start
                            /\ LocalDay(e.Start) = op.endDate.day
                            /\ LocalSecond(e.Start) = 23 * 3600

\* the adapter has composed the start and end of the event it hands to the provider
ComposedEvent ==
    /\ \/ op.name = "CreateEvent"
       \/ IsUpdate /\ ~TimeMembersAbsent
    /\ op.written # NoValue

\* C13: an adapter whose timezone name is missing, invalid or unrecognized works
\* as one configured with "UTC": the missing name is replaced at construction,
\* and with an unrecognized name the windows it queries and the timestamps it
\* writes are composed in UTC and the events it writes carry the timezone name "UTC".
C13_InvalidZoneIsDefault ==
    /\ NewCalendarClient("") = "UTC"
    /\ timezone \notin {"UTC", "Asia/Dubai"}
       => /\ IsListRange /\ op.query # NoValue
             => op.query.timeMin.off = 0 /\ op.query.timeMax.off = 0
          /\ ComposedEvent
             => /\ op.written.Start.DateTime.off = 0
                /\ op.written.End.DateTime.off = 0
                /\ op.written.Start.TimeZone = "UTC"
                /\ op.written.End.TimeZone = "UTC"

\* the date and the two times of day UpdateEvent composes the new start and end
\* from: the member of the update set, or else what the fetched event gives, which
\* is nothing for a start or end without a timestamp
DateGiven ==
    IF op.updates.Date # NoValue THEN op.updates.Date.s = "date"
    ELSE op.fetched.Start.DateTime # NoValue
StartTimeGiven ==
    IF op.updates.StartTime # NoValue THEN op.updates.StartTime.s = "time"
    ELSE op.fetched.Start.DateTime # NoValue
EndTimeGiven ==
    IF op.updates.EndTime # NoValue THEN op.updates.EndTime.s = "time"
    ELSE op.fetched.End.DateTime # NoValue
FetchFailed == IsUpdate /\ op.fetched = NoValue
RecomposedUnparsable ==
    /\ IsUpdate /\ op.fetched # NoValue /\ ~TimeMembersAbsent
    /\ ~(DateGiven /\ StartTimeGiven /\ EndTimeGiven)

\* C16: when the fetch of the existing event fails, or the start or end recomposed
\* for a time update cannot be parsed (as for a partial time update of an all-day
\* event), UpdateEvent returns an error, hands no event to the provider and the
\* stored events stay as they were.
C16_Inv ==
    FetchFailed \/ RecomposedUnparsable
    => /\ op.err # Nil
       /\ op.written = NoValue

C16_Step ==
    op'.n = op.n + 1 /\ (FetchFailed \/ RecomposedUnparsable)' => store' = store

C16_FailedUpdateWritesNothing == []C16_Inv /\ [][C16_Step]_vars

\* a partial time update of an all-day event
C16_Witness ==
    /\ IsUpdate /\ op.fetched # NoValue
    /\ op.fetched.Start.DateTime = NoValue /\ op.fetched.Start.Date = DateStr(1)
    /\ op.updates.Date = NoValue /\ op.updates.StartTime = TimeStr(720)
    /\ op.updates.EndTime = NoValue
    /\ op.err # Nil /\ op.written = NoValue
    /\ store[op.eventID] = op.fetched

C16_WitnessFetch ==
    /\ FetchFailed /\ op.eventID = "evt-404" /\ op.err = "googleapi: Error 404: Not Found"
    /\ op.updates.Summary = "Updated"

====
